---- MODULE Spec2Model ----
(***************************************************************************)
(* The version-control status reconciliation engine of lg: lg_v2.c         *)
(* (fork/exec runner, porcelain-v2 parser, prefix, lookup) and lg.c (three *)
(* popen sources merged into one table).                                   *)
(*                                                                         *)
(* A C string is a sequence of one-character strings, <<"s","/","a">> for  *)
(* "s/a".  A pointer that may be NULL is <<>> (NULL) or <<v>>.             *)
(***************************************************************************)
EXTENDS Integers, Sequences, FiniteSets, TLC

\* ---------------------------------------------------------------- bounds
\* most status lines the status tool prints in one run
MaxLines == 2
\* most entries readdir returns for the listed directory
MaxFiles == 1

\* ------------------------------------------------------ program constants
INITIAL_CAPACITY == 100
PATH_MAX == 4096
STATUS_OUTPUT_SIZE == 65536
MAX_FILES == 10000

NUL == "NUL"
SP == " "
TAB == "\t"
NL == "\n"
NULL == <<>>

\* ------------------------------------------------------------- C library
\* isspace() on the characters the model uses
IsSpace(c) == c \in {SP, TAB, NL}

\* first index >= i of s that holds no white space (Len(s)+1 at the end)
SkipWs(s, i) ==
  CHOOSE j \in i..(Len(s) + 1) :
    /\ \A k \in i..(j - 1) : IsSpace(s[k])
    /\ (j = Len(s) + 1 \/ ~IsSpace(s[j]))

\* index after the token that starts at i: it ends at white space, at the end
\* of s, or after w characters (w = 0: no field width)
TokEnd(s, i, w) ==
  CHOOSE j \in i..(Len(s) + 1) :
    /\ \A k \in i..(j - 1) : ~IsSpace(s[k])
    /\ (j = Len(s) + 1 \/ IsSpace(s[j]) \/ (w > 0 /\ j - i = w))
    /\ (w > 0 => j - i <= w)

\* scanf directives: white space, %*c, %s / %*s / %<w>s, a literal character
Dws == [k |-> "ws"]
DskipC == [k |-> "c", store |-> FALSE]
Dstr(w, store) == [k |-> "s", w |-> w, store |-> store]
Dlit(c) == [k |-> "lit", c |-> c]

\* what sscanf returns when the input ends: EOF (-1) before any assignment
InputFailure(vals) == [n |-> IF vals = <<>> THEN -1 ELSE Len(vals), vals |-> vals]

RECURSIVE Scan(_, _, _, _)
\* sscanf(s, fmt, ...) from position pos with the values assigned so far:
\* [n |-> its return value, vals |-> the strings it assigned, in order]
Scan(fmt, s, pos, vals) ==
  IF fmt = <<>> THEN [n |-> Len(vals), vals |-> vals]
  ELSE LET d == Head(fmt)
           rest == Tail(fmt)
       IN CASE d.k = "ws" -> Scan(rest, s, SkipWs(s, pos), vals)
            [] d.k = "c" ->
                 IF pos > Len(s) THEN InputFailure(vals)
                 ELSE Scan(rest, s, pos + 1, vals)
            [] d.k = "lit" ->
                 IF pos > Len(s) THEN InputFailure(vals)
                 ELSE IF s[pos] # d.c THEN [n |-> Len(vals), vals |-> vals]
                 ELSE Scan(rest, s, pos + 1, vals)
            [] d.k = "s" ->
                 LET p == SkipWs(s, pos)
                     e == TokEnd(s, p, d.w)
                 IN IF p > Len(s) THEN InputFailure(vals)
                    ELSE Scan(rest, s, e,
                              IF d.store THEN Append(vals, SubSeq(s, p, e - 1))
                              ELSE vals)

sscanf(s, fmt) == Scan(fmt, s, 1, <<>>)

\* "%*c %2s %*s %*s %*s %*s %*s %*s %s"
FmtTracked ==
  << DskipC, Dws, Dstr(2, TRUE), Dws, Dstr(0, FALSE), Dws, Dstr(0, FALSE), Dws,
     Dstr(0, FALSE), Dws, Dstr(0, FALSE), Dws, Dstr(0, FALSE), Dws,
     Dstr(0, FALSE), Dws, Dstr(0, TRUE) >>

\* "? %s"
FmtUntracked == << Dlit("?"), Dws, Dstr(0, TRUE) >>

\* "%2s\t%s" (lg.c)
FmtNameStatus == << Dstr(2, TRUE), Dws, Dstr(0, TRUE) >>

\* tolower() on the status alphabet
tolower(c) ==
  CASE c = "M" -> "m" [] c = "A" -> "a" [] c = "D" -> "d" [] c = "R" -> "r"
    [] c = "C" -> "c" [] c = "T" -> "t" [] c = "U" -> "u" [] OTHER -> c

\* c + 32 in ASCII, for the characters a name-status line can start with
Plus32(c) ==
  CASE c = "M" -> "m" [] c = "A" -> "a" [] c = "D" -> "d" [] c = "R" -> "r"
    [] c = "C" -> "c" [] c = "T" -> "t" [] c = "U" -> "u" [] c = "?" -> "_"
    [] OTHER -> c

\* the k-th character of a token sscanf stored, NUL at its terminator
CharAt(tok, k) == IF k <= Len(tok) THEN tok[k] ELSE NUL

RECURSIVE Runs(_)
\* the runs of buf between delimiters, empty ones included: the runs of the
\* two halves of buf, the last run of the first half joined to the first
\* run of the second
Runs(buf) ==
  IF Len(buf) <= 1
  THEN (IF buf = <<>> THEN << <<>> >>
        ELSE IF buf[1] = NL THEN << <<>>, <<>> >> ELSE << buf >>)
  ELSE LET h == Len(buf) \div 2
           l == Runs(SubSeq(buf, 1, h))
           r == Runs(SubSeq(buf, h + 1, Len(buf)))
       IN SubSeq(l, 1, Len(l) - 1) \o << l[Len(l)] \o r[1] >> \o Tail(r)

NonEmpty(run) == run # <<>>

\* the tokens strtok(buf, "\n") / strtok(NULL, "\n") return, in order: the
\* maximal runs of characters other than the delimiter (cur: a run that
\* precedes buf)
strtok(buf, cur) == SelectSeq(Runs(cur \o buf), NonEmpty)

\* at most n characters of s (snprintf / strncpy into a buffer of n+1)
Truncate(s, n) == IF Len(s) > n THEN SubSeq(s, 1, n) ELSE s


\* ------------------------------------------------------------ lg_v2.c data
\* GitStatus: one stored entry
GitStatus(path, staged, unstaged) ==
  [path |-> path, status_staged |-> staged, status_unstaged |-> unstaged]

\* the tracked branch of the parse loop: grow when full, then store if there
\* is room (realloc is taken to succeed)
AddTracked(c, xy, path) ==
  LET cap == IF Len(c.statuses) >= c.capacity THEN c.capacity * 2 ELSE c.capacity
  IN IF Len(c.statuses) < cap
     THEN [statuses |-> Append(c.statuses,
                               GitStatus(path, CharAt(xy, 1), CharAt(xy, 2))),
           capacity |-> cap]
     ELSE [statuses |-> c.statuses, capacity |-> cap]

\* the untracked branch: store only while count < capacity, never grow
AddUntracked(c, path) ==
  IF Len(c.statuses) < c.capacity
  THEN [statuses |-> Append(c.statuses, GitStatus(path, "?", "?")),
        capacity |-> c.capacity]
  ELSE c

\* mutant: a tracked line is stored as soon as sscanf assigned XY
MutParseLineAnyCount(c, line) ==
  IF line[1] = "1" \/ line[1] = "2"
  THEN LET r == sscanf(line, FmtTracked)
       IN IF r.n >= 1
          THEN AddTracked(c, r.vals[1], IF r.n = 2 THEN r.vals[2] ELSE <<>>)
          ELSE c
  ELSE IF line[1] = "?"
       THEN LET r == sscanf(line, FmtUntracked)
            IN IF r.n = 1 THEN AddUntracked(c, r.vals[1]) ELSE c
       ELSE c

\* one iteration of the parse loop on one strtok token
ParseLine(c, line) ==
  IF line[1] = "1" \/ line[1] = "2"
  THEN LET r == sscanf(line, FmtTracked)
       IN IF r.n = 2 THEN AddTracked(c, r.vals[1], r.vals[2]) ELSE c
  ELSE IF line[1] = "?"
       THEN LET r == sscanf(line, FmtUntracked)
            IN IF r.n = 1 THEN AddUntracked(c, r.vals[1]) ELSE c
       ELSE c

RECURSIVE ParseLines(_, _)
\* the whole parse loop over the tokens of the status output
ParseLines(c, lines) ==
  IF lines = <<>> THEN c
  ELSE IF Len(lines) = 1 THEN ParseLine(c, lines[1])
  ELSE LET h == Len(lines) \div 2
           first == ParseLines(c, SubSeq(lines, 1, h))
       IN IF first.capacity > 0
          THEN ParseLines(first, SubSeq(lines, h + 1, Len(lines)))
          ELSE first

\* git_context_create
git_context_create == [statuses |-> <<>>, capacity |-> INITIAL_CAPACITY]

\* "Calculate relative prefix": the string strdup copies, NULL when cwd is
\* not longer than git_root
PrefixRemainder(root, dir) ==
  IF Len(dir) > Len(root) THEN <<SubSeq(dir, Len(root) + 2, Len(dir))>> ELSE NULL

\* strcat(rel_prefix, "/") writes strlen+2 bytes into the strlen+1 bytes that
\* strdup allocated: the number of bytes written past the block
PrefixOverrun(rem) == IF rem # NULL /\ Len(rem[1]) > 0 THEN 1 ELSE 0

\* what the byte past the block can read as afterwards
HeapGarbage == {"!"}

\* ctx->rel_prefix after strdup and, for a non-empty remainder, strcat "/"
PrefixString(rem) ==
  IF rem # NULL /\ Len(rem[1]) > 0 THEN <<rem[1] \o <<"/">> >> ELSE rem

\* what rel_prefix reads as after later heap activity, over bytes written
\* past its block: the terminator written past the block either stays, or the
\* allocator overwrites it and the string runs on into the next byte
PrefixOutcomes(pfx, over) ==
  IF over = 0 THEN {pfx}
  ELSE {pfx} \cup {<<pfx[1] \o <<g>> >> : g \in HeapGarbage}

\* a code that shows a change: neither '.' nor ' '
Changed(code) == code # "." /\ code # SP

RECURSIVE MutSearchUnstagedFirst(_, _, _)
\* mutant: the unstaged code is tested before the staged one
MutSearchUnstagedFirst(st, full_path, i) ==
  IF i > Len(st) THEN SP
  ELSE IF st[i].path = full_path /\ Changed(st[i].status_unstaged)
       THEN tolower(st[i].status_unstaged)
  ELSE IF st[i].path = full_path /\ Changed(st[i].status_staged)
       THEN st[i].status_staged
  ELSE MutSearchUnstagedFirst(st, full_path, i + 1)

RECURSIVE SearchStatuses(_, _, _)
\* the search loop of get_file_git_status from index i
SearchStatuses(st, full_path, i) ==
  IF i > Len(st) THEN SP
  ELSE IF st[i].path = full_path /\ Changed(st[i].status_staged)
       THEN st[i].status_staged
  ELSE IF st[i].path = full_path /\ Changed(st[i].status_unstaged)
       THEN tolower(st[i].status_unstaged)
  ELSE SearchStatuses(st, full_path, i + 1)

\* mutant: the key is the bare name, rel_prefix is not prepended
MutFullPathNoPrefix(pfx, filename) == Truncate(filename, PATH_MAX - 1)

\* the key get_file_git_status builds in full_path[PATH_MAX]
FullPath(pfx, filename) ==
  IF pfx # NULL /\ Len(pfx[1]) > 0
  THEN Truncate(pfx[1] \o filename, PATH_MAX - 1)
  ELSE Truncate(filename, PATH_MAX - 1)

\* get_file_git_status(ctx, filename); ctxp is the pointer, "NULL" or "ctx"
get_file_git_status(ctxp, st, pfx, filename) ==
  IF ctxp = "NULL" THEN SP ELSE SearchStatuses(st, FullPath(pfx, filename), 1)

\* main: info.git_status = git_ctx ? get_file_git_status(...) : ' '
EntryStatus(ctxp, st, pfx, name) ==
  IF ctxp # "NULL" THEN get_file_git_status(ctxp, st, pfx, name) ELSE SP

\* get_git_color: the colour escape of a status character (ESC stands for
\* the escape character \033)
get_git_color(status) ==
  CASE status = "M" -> "ESC[38;5;214m"
    [] status = "m" -> "ESC[38;5;178m"
    [] status = "A" -> "ESC[38;5;34m"
    [] status = "a" -> "ESC[38;5;28m"
    [] status = "D" -> "ESC[38;5;167m"
    [] status = "d" -> "ESC[38;5;131m"
    [] status = "R" -> "ESC[38;5;141m"
    [] status = "r" -> "ESC[38;5;97m"
    [] status = "C" -> "ESC[38;5;73m"
    [] status = "c" -> "ESC[38;5;66m"
    [] status = "?" -> "ESC[38;5;245m"
    [] status = "!" -> "ESC[38;5;240m"
    [] OTHER -> ""

\* the two circles format_git_status prints
SOLID == "U+25CF"
HOLLOW == "U+25CB"

\* format_git_status: the two-column glyph of a status character
format_git_status(status) ==
  IF status \in {"M", "A", "D", "R", "C"} THEN <<SP, SOLID>>
  ELSE IF status \in {"m", "a", "d", "r", "c"} THEN <<SP, HOLLOW>>
  ELSE IF status = "?" THEN <<SP, "?">>
  ELSE IF status = "!" THEN <<SP, "!">>
  ELSE <<SP, SP>>

\* -------------------------------------------------------------- lg.c data
\* lg.c get_git_color: one colour for a letter in either case
V1get_git_color(status) ==
  IF status \in {"M", "m"} THEN "ESC[33m"
  ELSE IF status \in {"A", "a"} THEN "ESC[32m"
  ELSE IF status \in {"D", "d"} THEN "ESC[31m"
  ELSE IF status \in {"R", "r"} THEN "ESC[35m"
  ELSE IF status \in {"C", "c"} THEN "ESC[36m"
  ELSE IF status = "?" THEN "ESC[90m"
  ELSE IF status = "!" THEN "ESC[90m"
  ELSE ""

\* the staged loop: store without looking for the path
V1AddStaged(tab, line) ==
  LET r == sscanf(line, FmtNameStatus)
  IN IF r.n = 2 /\ Len(tab) < MAX_FILES
     THEN Append(tab, [path |-> r.vals[2], status |-> CharAt(r.vals[1], 1)])
     ELSE tab

\* found: the path is already in git_statuses
V1Found(tab, path) == \E i \in 1..Len(tab) : tab[i].path = path

\* mutant: the unstaged loop stores without looking for the path
MutV1AddUnstagedNoFound(tab, line) ==
  LET r == sscanf(line, FmtNameStatus)
  IN IF r.n = 2 /\ Len(tab) < MAX_FILES
     THEN Append(tab, [path |-> r.vals[2], status |-> Plus32(CharAt(r.vals[1], 1))])
     ELSE tab

\* the unstaged loop: store in lowercase unless found
V1AddUnstaged(tab, line) ==
  LET r == sscanf(line, FmtNameStatus)
  IN IF r.n = 2 /\ ~V1Found(tab, r.vals[2]) /\ Len(tab) < MAX_FILES
     THEN Append(tab, [path |-> r.vals[2], status |-> Plus32(CharAt(r.vals[1], 1))])
     ELSE tab

\* line[strcspn(line, "\n")] = 0
StripNewline(line) ==
  IF \E i \in 1..Len(line) : line[i] = NL
  THEN SubSeq(line, 1, (CHOOSE i \in 1..Len(line) :
                          line[i] = NL /\ \A k \in 1..(i - 1) : line[k] # NL) - 1)
  ELSE line

\* the untracked loop: the whole line is the path, stored as '?' unless found
V1AddUntracked(tab, line) ==
  LET path == StripNewline(line)
  IN IF Len(path) > 0 /\ ~V1Found(tab, path) /\ Len(tab) < MAX_FILES
     THEN Append(tab, [path |-> path, status |-> "?"])
     ELSE tab

RECURSIVE V1Search(_, _, _)
\* lg.c get_file_git_status(path): first match, else ' '
V1Search(tab, path, i) ==
  IF i > Len(tab) THEN SP
  ELSE IF tab[i].path = path THEN tab[i].status
  ELSE V1Search(tab, path, i + 1)

\* lg.c main: the path looked up for a directory entry
V1RelPath(dir, name) == IF dir = <<".">> THEN name ELSE dir \o <<"/">> \o name


\* ------------------------------------------------------------------ inputs
\* the directory the program is started in, and the directory argument
StartDirs == { <<"/", "r">> }
DirPaths == { <<".">>, <<"s">> }
\* the names readdir returns
Names == { <<"a">>, <<"b">> }

\* the directory chdir(d) leaves the process in, from directory dir
Resolve(dir, d) ==
  IF d = <<".">> THEN dir
  ELSE IF dir = <<"/">> THEN dir \o d ELSE dir \o <<"/">> \o d

RECURSIVE Join(_, _)
\* the fields, with sep between them
Join(fields, sep) ==
  IF Len(fields) = 1 THEN fields[1]
  ELSE fields[1] \o sep \o Join(Tail(fields), sep)

\* fields 3..8 of a porcelain-v2 record: sub mH mI mW hH hI
Mid == << <<"N">>, <<"6">>, <<"6">>, <<"6">>, <<"h">>, <<"h">> >>
Rec(type, xy, last) == Join(<< type, xy >> \o Mid \o last, <<SP>>)

\* lines the status tool can print (without the newline)
LStaged == Rec(<<"1">>, <<"M", ".">>, << <<"s", "/", "a">> >>)
LUnstaged == Rec(<<"1">>, <<".", "M">>, << <<"s", "/", "a">> >>)
LBoth == Rec(<<"1">>, <<"M", "D">>, << <<"a">> >>)
LNoChange == Rec(<<"1">>, <<".", ".">>, << <<"a">> >>)
LRename == Rec(<<"2">>, <<"R", ".">>, << <<"R", "9">>, <<"b", TAB, "a">> >>)
LUntracked == <<"?", SP, "a">>
LTruncated == <<"1", SP, "M", ".", SP, "N", SP, "6">>
LUnmerged == Join(<< <<"u">>, <<"U", "U">> >> \o Mid \o << <<"h">>, <<"a">> >>, <<SP>>)
LSpacePath == Rec(<<"1">>, <<"A", ".">>, << <<"b">>, <<"c">> >>)

StatusLines ==
  { LStaged, LUnstaged, LBoth, LNoChange, LRename, LUntracked, LTruncated,
    LUnmerged, LSpacePath }

RECURSIVE LineSeqs(_, _)
\* the sequences of at most n lines of L
LineSeqs(L, n) ==
  IF n = 0 THEN { <<>> }
  ELSE LET shorter == LineSeqs(L, n - 1)
       IN shorter \cup { Append(q, l) : q \in shorter, l \in L }

RECURSIVE Text(_)
\* the bytes of a sequence of lines, each ended by a newline
Text(lines) ==
  IF lines = <<>> THEN <<>>
  ELSE IF Len(lines) = 1 THEN lines[1] \o <<NL>>
  ELSE LET h == Len(lines) \div 2
       IN Text(SubSeq(lines, 1, h)) \o Text(SubSeq(lines, h + 1, Len(lines)))

Digits == <<"0", "1", "2", "3", "4", "5", "6", "7", "8", "9">>

RECURSIVE NumText(_)
\* the decimal digits of n
NumText(n) ==
  IF n < 10 THEN <<Digits[n + 1]>>
  ELSE NumText(n \div 10) \o <<Digits[(n % 10) + 1]>>

\* a status output of one more untracked file than a new context has room
\* for: "? u1", "? u2", ...
ManyUntracked ==
  [n \in 1..(INITIAL_CAPACITY + 1) |-> <<"?", SP, "u">> \o NumText(n)]

\* what the child can do once exec succeeded: the bytes it writes and the
\* exit status it ends with.  "root" is git rev-parse --show-toplevel,
\* "status" is git status --porcelain=v2
ChildRuns(call) ==
  IF call = "root"
  THEN { [out |-> Text(<<r>>), code |-> 0] :
           r \in { <<"/", "r">>, <<"/">>, <<"/", "q">> } }
       \cup { [out |-> <<>>, code |-> 128] }
  ELSE { [out |-> Text(q), code |-> 0] : q \in LineSeqs(StatusLines, MaxLines) }
       \cup { [out |-> Text(ManyUntracked), code |-> 0] }
       \cup { [out |-> Text(q), code |-> 128] : q \in { <<>>, <<LStaged>> } }

\* the writes of the child, counted from 0, that may stop short: the child
\* writes its output in one write() or in two
ShortWrites == { 0 }

\* the sizes of the child's next write(), nw writes done: all it has left,
\* or half of it for a write that may stop short
WriteSizes(rest, nw) ==
  { Len(rest) } \cup { n \in { Len(rest) \div 2 } : n >= 1 /\ nw \in ShortWrites }

\* lg.c: lines of git diff --name-status, and of git ls-files --others
DiffLines ==
  { <<"M", TAB, "a", NL>>, <<"D", TAB, "a", NL>>, <<"A", TAB, "b", NL>> }
OtherLines == { <<"a", NL>>, <<"b", NL>> }

\* ------------------------------------------------------------------- state
VARIABLES
  prog,         \* which program runs: "lg_v2" or "lg"
  pc,           \* where the program is
  exitCode,     \* main's return value, -1 while it runs
  procCwd,      \* the working directory of the process
  dir_path,     \* main: the directory to list
  old_dir,      \* get_git_status: old_dir
  cwd,          \* get_git_status: cwd
  git_root,     \* get_git_status: git_root
  ctx,          \* the GitContext: [statuses, capacity]
  rel_prefix,   \* ctx->rel_prefix, NULL or <<string>>
  heapOverrun,  \* bytes written past a heap block so far
  git_ctx,      \* main: git_ctx, "NULL" or "ctx"
  xcall,        \* exec_git_command: which call, "root" or "status"
  output_size,  \* exec_git_command: output_size
  pipefd,       \* exec_git_command: the pipe ends the parent holds open
  output,       \* exec_git_command: the bytes stored in output
  total_read,   \* exec_git_command: total_read
  xret,         \* exec_git_command: its return value
  pipeBuf,      \* the bytes in the pipe
  child,        \* the child: [st, out, code, nw, reaped, plan]; code is the
                \* exit code of an exited child, the signal of a killed one;
                \* plan is the exit code git ends with when it is left to
                \* write all of its output
  status_output,\* get_git_status: status_output after a successful run
  toks,         \* the strtok tokens not yet parsed
  failure,      \* why the status feature failed, "" if it did not
  files,        \* main: the file list, [name, git_status]
  git_statuses, \* lg.c: git_statuses[0..git_status_count-1]
  fed,          \* lg.c: the lines read so far, [src, line]
  nline         \* lg.c: lines read from the source being read

vars ==
  << prog, pc, exitCode, procCwd, dir_path, old_dir, cwd, git_root, ctx,
     rel_prefix, heapOverrun, git_ctx, xcall, output_size, pipefd, output,
     total_read, xret, pipeBuf, child, status_output, toks, failure, files,
     git_statuses, fed, nline >>

engineVars == << old_dir, cwd, git_root, ctx, rel_prefix, heapOverrun, git_ctx,
                 status_output, toks, failure >>
execVars == << xcall, output_size, pipefd, output, total_read, xret, pipeBuf, child >>
v1Vars == << git_statuses, fed, nline >>

NoChild ==
  [st |-> "none", out |-> <<>>, code |-> 0, nw |-> 0, reaped |-> FALSE, plan |-> 0]


Init ==
  /\ prog \in {"lg_v2", "lg"}
  /\ pc = IF prog = "lg_v2" THEN "g_getcwd_old" ELSE "v1_revparse"
  /\ exitCode = -1
  /\ procCwd \in StartDirs
  /\ dir_path \in DirPaths
  /\ old_dir = <<>> /\ cwd = <<>> /\ git_root = <<>>
  /\ ctx = git_context_create
  /\ rel_prefix = NULL
  /\ heapOverrun = 0
  /\ git_ctx = "NULL"
  /\ xcall = "none" /\ output_size = 0 /\ pipefd = {} /\ output = <<>>
  /\ total_read = 0 /\ xret = 0 /\ pipeBuf = <<>> /\ child = NoChild
  /\ status_output = <<>> /\ toks = <<>>
  /\ failure = ""
  /\ files = <<>>
  /\ git_statuses = <<>> /\ fed = <<>> /\ nline = 0


\* --------------------------------------------- lg_v2.c: exec_git_command
\* where exec_git_command returns to
ReturnPc == IF xcall = "root" THEN "g_root_ret" ELSE "g_status_ret"

Min(a, b) == IF a < b THEN a ELSE b

\* pipe(pipefd): on failure return -1
XPipe ==
  /\ pc = "x_pipe"
  /\ \/ pipefd' = {"r", "w"} /\ pc' = "x_fork" /\ UNCHANGED xret
     \/ xret' = -1 /\ pc' = ReturnPc /\ UNCHANGED pipefd
  /\ UNCHANGED << prog, exitCode, procCwd, dir_path, engineVars, xcall,
                  output_size, output, total_read, pipeBuf, child, files, v1Vars >>

\* fork(): on failure close both ends and return -1
XFork ==
  /\ pc = "x_fork"
  /\ \/ /\ child' = [NoChild EXCEPT !.st = "forked"]
        /\ pipeBuf' = <<>>
        /\ pc' = "x_close_w"
        /\ UNCHANGED << xret, pipefd >>
     \/ /\ pipefd' = {}
        /\ xret' = -1
        /\ pc' = ReturnPc
        /\ UNCHANGED << child, pipeBuf >>
  /\ UNCHANGED << prog, exitCode, procCwd, dir_path, engineVars, xcall,
                  output_size, output, total_read, files, v1Vars >>

\* parent: close(pipefd[1]); total_read = 0
XCloseWrite ==
  /\ pc = "x_close_w"
  /\ pipefd' = pipefd \ {"w"}
  /\ total_read' = 0
  /\ pc' = "x_read"
  /\ UNCHANGED << prog, exitCode, procCwd, dir_path, engineVars, xcall,
                  output_size, output, xret, pipeBuf, child, files, v1Vars >>

\* mutant: the read may fill the whole buffer, no room kept for the terminator
MutReadCountNoRoom(size, total) == size - total

\* the count of a read(): output_size - total_read - 1
ReadCount(size, total) == size - total - 1

\* one read() of the loop: it blocks until the pipe holds data or no writer
\* is left (end of file, which ends the loop)
XRead ==
  /\ pc = "x_read"
  /\ \/ /\ pipeBuf # <<>>
        /\ ReadCount(output_size, total_read) > 0
        /\ LET n == Min(Len(pipeBuf), ReadCount(output_size, total_read))
           IN /\ output' = output \o SubSeq(pipeBuf, 1, n)
              /\ pipeBuf' = SubSeq(pipeBuf, n + 1, Len(pipeBuf))
              /\ total_read' = total_read + n
              /\ pc' = IF total_read + n >= output_size - 1 THEN "x_finish" ELSE "x_read"
     \/ /\ pipeBuf = <<>>
        /\ child.st \in {"exited", "signaled"}
        /\ pc' = "x_finish"
        /\ UNCHANGED << output, pipeBuf, total_read >>
  /\ UNCHANGED << prog, exitCode, procCwd, dir_path, engineVars, xcall,
                  output_size, pipefd, xret, child, files, v1Vars >>

\* a read() that fails returns -1, which ends the loop like end of file
XReadError ==
  /\ pc = "x_read"
  /\ pc' = "x_finish"
  /\ UNCHANGED << prog, exitCode, procCwd, dir_path, engineVars, xcall,
                  output_size, pipefd, output, total_read, xret, pipeBuf, child,
                  files, v1Vars >>

\* mutant: the read end is left open
MutCloseReadLeaks(fds) == fds

\* close(pipefd[0])
CloseRead(fds) == fds \ {"r"}

\* output[total_read] = '\0'; close(pipefd[0])
XFinish ==
  /\ pc = "x_finish"
  /\ pipefd' = CloseRead(pipefd)
  /\ pc' = "x_wait"
  /\ UNCHANGED << prog, exitCode, procCwd, dir_path, engineVars, xcall,
                  output_size, output, total_read, xret, pipeBuf, child, files,
                  v1Vars >>

\* the status word waitpid stores for a terminated child: the exit code in
\* bits 8..15, or the number of the signal that killed it in bits 0..6
WaitStatus(c) == IF c.st = "exited" THEN c.code * 256 ELSE c.code

WIFEXITED(status) == status % 128 = 0
WEXITSTATUS(status) == (status \div 256) % 256

\* mutant: only the exit-code bits are tested, WIFEXITED is not
MutExitResultNoWifexited(status) == IF WEXITSTATUS(status) = 0 THEN 0 ELSE -1

\* WIFEXITED(status) && WEXITSTATUS(status) == 0 ? 0 : -1
ExitResult(status) == IF WIFEXITED(status) /\ WEXITSTATUS(status) = 0 THEN 0 ELSE -1

\* mutant: the child is not waited for
MutReapNothing(c) == c

\* waitpid(pid, &status, 0) collects the terminated child
Reap(c) == [c EXCEPT !.reaped = TRUE]

\* waitpid(pid, &status, 0) and the return
XWait ==
  /\ pc = "x_wait"
  /\ child.st \in {"exited", "signaled"}
  /\ ~child.reaped
  /\ xret' = ExitResult(WaitStatus(child))
  /\ child' = Reap(child)
  /\ pc' = ReturnPc
  /\ UNCHANGED << prog, exitCode, procCwd, dir_path, engineVars, xcall,
                  output_size, pipefd, output, total_read, pipeBuf, files, v1Vars >>

\* the child: execvp("git", args), or _exit(1) when it fails
ChildExec ==
  /\ child.st = "forked"
  /\ \/ child' = [child EXCEPT !.st = "exited", !.code = 1, !.plan = 1]
     \/ \E r \in ChildRuns(xcall) :
          child' = [child EXCEPT !.st = "running", !.out = r.out,
                                 !.code = r.code, !.plan = r.code]
  /\ UNCHANGED << prog, pc, exitCode, procCwd, dir_path, engineVars, xcall,
                  output_size, pipefd, output, total_read, xret, pipeBuf, files,
                  v1Vars >>

\* git writes to its stdout; with the read end closed the write raises
\* SIGPIPE (13), or fails with EPIPE and git exits 128 when SIGPIPE is ignored
ChildWrite ==
  /\ child.st = "running"
  /\ child.out # <<>>
  /\ IF "r" \in pipefd
     THEN \E n \in WriteSizes(child.out, child.nw) :
            /\ pipeBuf' = pipeBuf \o SubSeq(child.out, 1, n)
            /\ child' = [child EXCEPT !.out = SubSeq(child.out, n + 1, Len(child.out)),
                                      !.nw = child.nw + 1]
     ELSE /\ \/ child' = [child EXCEPT !.st = "signaled", !.code = 13]
             \/ child' = [child EXCEPT !.st = "exited", !.code = 128]
          /\ UNCHANGED pipeBuf
  /\ UNCHANGED << prog, pc, exitCode, procCwd, dir_path, engineVars, xcall,
                  output_size, pipefd, output, total_read, xret, files, v1Vars >>

\* git exits once it has written everything
ChildExit ==
  /\ child.st = "running"
  /\ child.out = <<>>
  /\ child' = [child EXCEPT !.st = "exited"]
  /\ UNCHANGED << prog, pc, exitCode, procCwd, dir_path, engineVars, xcall,
                  output_size, pipefd, output, total_read, xret, pipeBuf, files,
                  v1Vars >>

\* git is killed by a signal (9, SIGKILL)
ChildKilled ==
  /\ child.st = "running"
  /\ child' = [child EXCEPT !.st = "signaled", !.code = 9]
  /\ UNCHANGED << prog, pc, exitCode, procCwd, dir_path, engineVars, xcall,
                  output_size, pipefd, output, total_read, xret, pipeBuf, files,
                  v1Vars >>


\* ----------------------------------------------- lg_v2.c: get_git_status
\* strlen(git_root) > 0 && git_root[len-1] == '\n': drop it
DropNewline(str) ==
  IF Len(str) > 0 /\ str[Len(str)] = NL THEN SubSeq(str, 1, Len(str) - 1) ELSE str

\* mutant: the directory is not changed back
MutRestoreStays(cur, old) == cur

\* chdir(old_dir): the working directory after it, old_dir being the
\* absolute path getcwd gave on entry (its return value is not looked at;
\* it is taken to succeed)
Restore(cur, old) == old

\* getcwd(old_dir): NULL makes get_git_status return NULL
GetCwdOld ==
  /\ pc = "g_getcwd_old"
  /\ \/ old_dir' = procCwd /\ pc' = "g_chdir" /\ UNCHANGED failure
     \/ failure' = "getcwd" /\ pc' = "m_opendir" /\ UNCHANGED old_dir
  /\ UNCHANGED << prog, exitCode, procCwd, dir_path, cwd, git_root, ctx,
                  rel_prefix, heapOverrun, git_ctx, status_output, toks,
                  execVars, files, v1Vars >>

\* chdir(dir_path), then the call exec_git_command(args_root, git_root, PATH_MAX)
Chdir ==
  /\ pc = "g_chdir"
  /\ \/ /\ procCwd' = Resolve(procCwd, dir_path)
        /\ xcall' = "root" /\ output_size' = PATH_MAX /\ output' = <<>>
        /\ child' = NoChild
        /\ pc' = "x_pipe"
        /\ UNCHANGED failure
     \/ /\ failure' = "chdir"
        /\ pc' = "m_opendir"
        /\ UNCHANGED << procCwd, xcall, output_size, output, child >>
  /\ UNCHANGED << prog, exitCode, dir_path, old_dir, cwd, git_root, ctx,
                  rel_prefix, heapOverrun, git_ctx, status_output, toks,
                  pipefd, total_read, xret, pipeBuf, files, v1Vars >>

\* the root query returned: on failure chdir(old_dir) and return NULL, else
\* strip the newline from git_root
RootResult ==
  /\ pc = "g_root_ret"
  /\ IF xret # 0
     THEN /\ procCwd' = Restore(procCwd, old_dir)
          /\ failure' = "root"
          /\ pc' = "m_opendir"
          /\ UNCHANGED git_root
     ELSE /\ git_root' = DropNewline(output)
          /\ pc' = "g_getcwd"
          /\ UNCHANGED << procCwd, failure >>
  /\ UNCHANGED << prog, exitCode, dir_path, old_dir, cwd, ctx, rel_prefix,
                  heapOverrun, git_ctx, status_output, toks, execVars, files,
                  v1Vars >>

\* getcwd(cwd): on failure chdir(old_dir) and return NULL
GetCwd ==
  /\ pc = "g_getcwd"
  /\ \/ cwd' = procCwd /\ pc' = "g_prefix" /\ UNCHANGED << procCwd, failure >>
     \/ /\ procCwd' = Restore(procCwd, old_dir)
        /\ failure' = "cwd"
        /\ pc' = "m_opendir"
        /\ UNCHANGED cwd
  /\ UNCHANGED << prog, exitCode, dir_path, old_dir, git_root, ctx, rel_prefix,
                  heapOverrun, git_ctx, status_output, toks, execVars, files,
                  v1Vars >>

\* the relative prefix, then the call
\* exec_git_command(args_status, status_output, sizeof(status_output))
Prefix ==
  /\ pc = "g_prefix"
  /\ rel_prefix' = PrefixString(PrefixRemainder(git_root, cwd))
  /\ heapOverrun' = heapOverrun + PrefixOverrun(PrefixRemainder(git_root, cwd))
  /\ xcall' = "status" /\ output_size' = STATUS_OUTPUT_SIZE /\ output' = <<>>
  /\ child' = NoChild
  /\ pc' = "x_pipe"
  /\ UNCHANGED << prog, exitCode, procCwd, dir_path, old_dir, cwd, git_root,
                  ctx, git_ctx, status_output, toks, failure, pipefd,
                  total_read, xret, pipeBuf, files, v1Vars >>

\* mutant: the output is parsed whatever the status query returned
MutStatusResultParsesAnyway ==
  /\ pc = "g_status_ret"
  /\ status_output' = output
  /\ toks' = strtok(output, <<>>)
  /\ failure' = IF xret = 0 THEN failure ELSE "status"
  /\ pc' = "g_parse"
  /\ UNCHANGED << prog, exitCode, procCwd, dir_path, old_dir, cwd, git_root,
                  ctx, rel_prefix, heapOverrun, git_ctx, execVars, files, v1Vars >>

\* the status query returned: parse only when it returned 0
StatusResult ==
  /\ pc = "g_status_ret"
  /\ IF xret = 0
     THEN /\ status_output' = output
          /\ toks' = strtok(output, <<>>)
          /\ pc' = "g_parse"
          /\ UNCHANGED failure
     ELSE /\ failure' = "status"
          /\ pc' = "g_chdir_back"
          /\ UNCHANGED << status_output, toks >>
  /\ UNCHANGED << prog, exitCode, procCwd, dir_path, old_dir, cwd, git_root,
                  ctx, rel_prefix, heapOverrun, git_ctx, execVars, files, v1Vars >>

\* while (line != NULL) { ... line = strtok(NULL, "\n"); }
Parse ==
  /\ pc = "g_parse"
  /\ IF toks = <<>>
     THEN pc' = "g_chdir_back" /\ UNCHANGED << ctx, toks >>
     ELSE /\ ctx' = ParseLine(ctx, Head(toks))
          /\ toks' = Tail(toks)
          /\ UNCHANGED pc
  /\ UNCHANGED << prog, exitCode, procCwd, dir_path, old_dir, cwd, git_root,
                  rel_prefix, heapOverrun, git_ctx, status_output, failure,
                  execVars, files, v1Vars >>

\* chdir(old_dir); return ctx.  From here on rel_prefix is what the heap
\* holds for it
ChdirBack ==
  /\ pc = "g_chdir_back"
  /\ procCwd' = Restore(procCwd, old_dir)
  /\ git_ctx' = "ctx"
  /\ rel_prefix' \in PrefixOutcomes(rel_prefix, heapOverrun)
  /\ pc' = "m_opendir"
  /\ UNCHANGED << prog, exitCode, dir_path, old_dir, cwd, git_root, ctx,
                  heapOverrun, status_output, toks, failure, execVars, files,
                  v1Vars >>

\* ---------------------------------------------------------- lg_v2.c: main
\* opendir(dir_path): failure is fatal, return 1
OpenDir ==
  /\ pc = "m_opendir"
  /\ \/ pc' = "m_readdir" /\ UNCHANGED exitCode
     \/ pc' = "done" /\ exitCode' = 1
  /\ UNCHANGED << prog, procCwd, dir_path, engineVars, execVars, files, v1Vars >>

\* one readdir: an entry gets its status and is added to the list; at the end
\* of the directory the list is printed and main returns 0
ReadDir ==
  /\ pc = "m_readdir"
  /\ \/ /\ Len(files) < MaxFiles
        /\ \E name \in Names :
             files' = Append(files,
                        [name |-> name,
                         git_status |-> EntryStatus(git_ctx, ctx.statuses,
                                                    rel_prefix, name)])
        /\ UNCHANGED << pc, exitCode >>
     \/ pc' = "done" /\ exitCode' = 0 /\ UNCHANGED files
  /\ UNCHANGED << prog, procCwd, dir_path, engineVars, execVars, v1Vars >>

\* ------------------------------------------------------------------- lg.c
\* git rev-parse --git-dir: return when popen fails or prints nothing
V1RevParse ==
  /\ pc = "v1_revparse"
  /\ \/ pc' = "v1_staged" /\ UNCHANGED failure
     \/ pc' = "v1_opendir" /\ failure' = "norepo"
  /\ nline' = 0
  /\ UNCHANGED << prog, exitCode, procCwd, dir_path, old_dir, cwd, git_root,
                  ctx, rel_prefix, heapOverrun, git_ctx, status_output, toks,
                  execVars, files, git_statuses, fed >>

\* the body of the read loop of a source
V1Add(src, tab, line) ==
  IF src = "staged" THEN V1AddStaged(tab, line)
  ELSE IF src = "unstaged" THEN V1AddUnstaged(tab, line)
  ELSE V1AddUntracked(tab, line)

\* one fgets of a source: a line is ingested, or the source ends (or its
\* popen failed) and the next one starts
V1Ingest(at, next, src, L) ==
  /\ pc = at
  /\ \/ /\ nline < MaxLines
        /\ \E l \in L :
             /\ git_statuses' = V1Add(src, git_statuses, l)
             /\ fed' = Append(fed, [src |-> src, line |-> l])
        /\ nline' = nline + 1
        /\ UNCHANGED pc
     \/ /\ pc' = next
        /\ nline' = 0
        /\ UNCHANGED << git_statuses, fed >>
  /\ UNCHANGED << prog, exitCode, procCwd, dir_path, engineVars, execVars, files >>

V1Staged == V1Ingest("v1_staged", "v1_unstaged", "staged", DiffLines)
V1Unstaged == V1Ingest("v1_unstaged", "v1_untracked", "unstaged", DiffLines)
V1Untracked == V1Ingest("v1_untracked", "v1_opendir", "untracked", OtherLines)

\* opendir(dir_path): failure is fatal
V1OpenDir ==
  /\ pc = "v1_opendir"
  /\ \/ pc' = "v1_readdir" /\ UNCHANGED exitCode
     \/ pc' = "done" /\ exitCode' = 1
  /\ UNCHANGED << prog, procCwd, dir_path, engineVars, execVars, files, v1Vars >>

\* one readdir of lg.c's main
V1ReadDir ==
  /\ pc = "v1_readdir"
  /\ \/ /\ Len(files) < MaxFiles
        /\ \E name \in Names :
             files' = Append(files,
                        [name |-> name,
                         git_status |-> V1Search(git_statuses,
                                                 V1RelPath(dir_path, name), 1)])
        /\ UNCHANGED << pc, exitCode >>
     \/ pc' = "done" /\ exitCode' = 0 /\ UNCHANGED files
  /\ UNCHANGED << prog, procCwd, dir_path, engineVars, execVars, v1Vars >>

\* ------------------------------------------------------------ specification
Next ==
  \/ GetCwdOld \/ Chdir \/ RootResult \/ GetCwd \/ Prefix \/ StatusResult
  \/ Parse \/ ChdirBack \/ OpenDir \/ ReadDir
  \/ XPipe \/ XFork \/ XCloseWrite \/ XRead \/ XFinish \/ XWait
  \/ ChildExec \/ ChildWrite \/ ChildExit \/ ChildKilled
  \/ V1RevParse \/ V1Staged \/ V1Unstaged \/ V1Untracked \/ V1OpenDir \/ V1ReadDir

Spec == Init /\ [][Next]_vars

\* ------------------------------------- exec_git_command at a small capacity
\* exec_git_command(args, output, output_size) takes the capacity as an
\* argument.  These runs give it a capacity that git's output reaches: below
\* the output, one above it, equal to it, and above it
SmallSizes == { 2, 4, 5, 10, 30 }

\* the state in which get_git_status calls exec_git_command for the status
\* query, in a repository at /r, with the capacity drawn from SmallSizes
RunnerInit ==
  /\ prog = "lg_v2"
  /\ pc = "x_pipe"
  /\ exitCode = -1
  /\ dir_path \in DirPaths
  /\ old_dir = <<"/", "r">>
  /\ procCwd = Resolve(old_dir, dir_path)
  /\ cwd = procCwd
  /\ git_root = <<"/", "r">>
  /\ ctx = git_context_create
  /\ rel_prefix = PrefixString(PrefixRemainder(git_root, cwd))
  /\ heapOverrun = PrefixOverrun(PrefixRemainder(git_root, cwd))
  /\ git_ctx = "NULL"
  /\ xcall = "status" /\ output_size \in SmallSizes /\ output = <<>>
  /\ pipefd = {} /\ total_read = 0 /\ xret = 0 /\ pipeBuf = <<>>
  /\ child = NoChild
  /\ status_output = <<>> /\ toks = <<>>
  /\ failure = ""
  /\ files = <<>>
  /\ git_statuses = <<>> /\ fed = <<>> /\ nline = 0

\* the parent's steps of exec_git_command that cannot fail
RunnerSteps == XPipe \/ XFork \/ XCloseWrite \/ XRead \/ XFinish \/ XWait

\* the steps of git once it was forked, short of being killed from outside
ChildSteps == ChildExec \/ ChildWrite \/ ChildExit

RunnerNext ==
  \/ XPipe \/ XFork \/ XCloseWrite \/ XRead \/ XReadError \/ XFinish \/ XWait
  \/ ChildExec \/ ChildWrite \/ ChildExit \/ ChildKilled
  \/ StatusResult \/ Parse \/ ChdirBack

RunnerSpec == RunnerInit /\ [][RunnerNext]_vars

\* the parent runs whenever it is not blocked, and so does git: it writes
\* what it has to write and exits
RunnerFair == RunnerSpec /\ WF_vars(RunnerSteps) /\ WF_vars(ChildSteps)


\* ------------------------------------------------------------------ claims
\* the text of rel_prefix, empty for NULL
PrefixText(pfx) == IF pfx = NULL THEN <<>> ELSE pfx[1]

\* the repository-relative key of a directory entry: relativePrefix + name
Key(name) == PrefixText(rel_prefix) \o name

\* the stored entries of lg_v2.c whose path is key, by index
Matching(key) == { k \in 1..Len(ctx.statuses) : ctx.statuses[k].path = key }

\* an entry that carries a change in either code
Carries(e) == Changed(e.status_staged) \/ Changed(e.status_unstaged)

\* the precedence rule on one entry: staged verbatim, else unstaged in lowercase
Display(e) ==
  IF Changed(e.status_staged) THEN e.status_staged
  ELSE IF Changed(e.status_unstaged) THEN tolower(e.status_unstaged)
  ELSE SP

\* the entries of lg_v2.c's file list that were looked up in a context
LookedUp == IF prog = "lg_v2" /\ git_ctx = "ctx" THEN 1..Len(files) ELSE {}

\* C1: a looked-up entry whose key matches a stored path gets the staged code
\* verbatim when that is neither '.' nor ' ', else the unstaged code in
\* lowercase when that is neither, else the single space; the entry that
\* decides is the first stored one with that path that carries a change, so an
\* entry with both a staged and an unstaged change yields its staged code
C1_Precedence ==
  \A i \in LookedUp :
    LET m == Matching(Key(files[i].name))
        d == { k \in m : Carries(ctx.statuses[k]) }
    IN m # {} =>
         IF d = {} THEN files[i].git_status = SP
         ELSE LET first == CHOOSE k \in d : \A j \in d : k <= j
                  e == ctx.statuses[first]
              IN /\ files[i].git_status = Display(e)
                 /\ (Changed(e.status_staged) /\ Changed(e.status_unstaged)
                       => files[i].git_status = e.status_staged)

\* C1 witness: an entry with a staged and an unstaged change was looked up and
\* the staged code came back
C1_Witness ==
  \E i \in LookedUp :
    \E k \in Matching(Key(files[i].name)) :
      /\ ctx.statuses[k].status_staged \in {"M", "A", "D", "R", "C"}
      /\ ctx.statuses[k].status_unstaged \in {"M", "D"}
      /\ files[i].git_status = ctx.statuses[k].status_staged

\* the key lg.c looks a directory entry up with, and whether a path is stored
V1Key(name) == IF dir_path = <<".">> THEN name ELSE dir_path \o <<"/">> \o name
V1Stored(key) == \E k \in 1..Len(git_statuses) : git_statuses[k].path = key

\* C2: lookup is total: every entry of the list has a one-character status,
\* it is the single space when there is no context, and it is the single
\* space whenever prefix+name equals no stored path (both programs)
C2_TotalLookup ==
  \A i \in 1..Len(files) :
    /\ files[i].git_status \in STRING
    /\ (prog = "lg_v2" /\ git_ctx = "NULL" => files[i].git_status = SP)
    /\ (prog = "lg_v2" /\ Matching(Key(files[i].name)) = {}
          => files[i].git_status = SP)
    /\ (prog = "lg" /\ ~V1Stored(V1Key(files[i].name)) => files[i].git_status = SP)

\* C2 witness: a context with entries and a non-empty prefix, an entry name
\* whose key is not stored although the bare name is, and the sentinel
C2_Witness ==
  \E i \in LookedUp :
    /\ Len(ctx.statuses) > 0
    /\ Matching(Key(files[i].name)) = {}
    /\ Matching(files[i].name) # {}
    /\ files[i].git_status = SP

\* C3 (as claimed): no two stored entries have equal paths
C3_NoDuplicatePaths ==
  \A i, j \in 1..Len(ctx.statuses) :
    i # j => ctx.statuses[i].path # ctx.statuses[j].path


\* the report a line read by lg.c carries: its path and the status its source
\* gives it (the letter, the letter in lowercase, '?')
V1Report(r) ==
  LET tabAt == CHOOSE t \in 1..Len(r.line) : r.line[t] = TAB
  IN IF r.src = "untracked"
     THEN [path |-> SubSeq(r.line, 1, Len(r.line) - 1), status |-> "?"]
     ELSE [path |-> SubSeq(r.line, tabAt + 1, Len(r.line) - 1),
           status |-> IF r.src = "staged" THEN r.line[1] ELSE tolower(r.line[1])]

\* the reports of the lines read so far, in the order read
V1Reported == [k \in 1..Len(fed) |-> V1Report(fed[k])]

\* the lines read so far that report path p, by index, and those of a source
V1Reports(p) == { k \in 1..Len(fed) : V1Report(fed[k]).path = p }
V1ReportsOf(p, src) == { k \in V1Reports(p) : fed[k].src = src }

\* C4: a path fed through the staged source (once), then the unstaged, then
\* the untracked source is stored exactly once, with the status of the first
\* line that reported it; later lines neither add an entry nor change it, and
\* a lookup of the path returns that status
C4_FirstSourceWins ==
  prog = "lg" =>
    LET rep == V1Reported
    IN \A p \in { rep[k].path : k \in 1..Len(rep) } :
         LET by == { k \in 1..Len(rep) : rep[k].path = p }
             first == CHOOSE k \in by : \A j \in by : k <= j
             at == { k \in 1..Len(git_statuses) : git_statuses[k].path = p }
         IN Cardinality({ k \in by : fed[k].src = "staged" }) <= 1 =>
              /\ Cardinality(at) = 1
              /\ \A k \in at : git_statuses[k].status = rep[first].status
              /\ \A i \in 1..Len(files) :
                   V1Key(files[i].name) = p => files[i].git_status = rep[first].status

\* C4 witness: one path came from all three sources and its lookup returned
\* the staged letter
C4_Witness ==
  /\ prog = "lg"
  /\ \E i \in 1..Len(files) :
       LET p == V1Key(files[i].name)
       IN /\ V1ReportsOf(p, "staged") # {}
          /\ V1ReportsOf(p, "unstaged") # {}
          /\ V1ReportsOf(p, "untracked") # {}
          /\ \E k \in V1ReportsOf(p, "staged") : files[i].git_status = fed[k].line[1]

\* root is a proper path prefix of dir: dir is longer, starts with root, and
\* root ends at a separator of dir
StrictlyNested(root, dir) ==
  /\ Len(dir) > Len(root)
  /\ Len(root) > 0
  /\ SubSeq(dir, 1, Len(root)) = root
  /\ (root[Len(root)] = "/" \/ dir[Len(root) + 1] = "/")

\* the prefix the claim gives: the remainder of dir after root (and the
\* separator between them) plus one trailing separator, else empty
ClaimedPrefix(root, dir) ==
  IF StrictlyNested(root, dir)
  THEN SubSeq(dir, (IF root[Len(root)] = "/" THEN Len(root) + 1 ELSE Len(root) + 2),
              Len(dir)) \o <<"/">>
  ELSE <<>>

\* C5 (as claimed): once the prefix is computed it is the remainder of cwd
\* after git_root plus a separator when cwd is strictly nested in git_root,
\* and empty in every other case
C5_PrefixAsClaimed ==
  prog = "lg_v2" /\ xcall = "status"
    => PrefixText(rel_prefix) = ClaimedPrefix(git_root, cwd)

RECURSIVE Fields(_, _)
\* the white-space-delimited fields of a line (cur: the field being read)
Fields(line, cur) ==
  IF line = <<>> THEN (IF cur = <<>> THEN <<>> ELSE <<cur>>)
  ELSE IF IsSpace(Head(line))
       THEN (IF cur = <<>> THEN <<>> ELSE <<cur>>) \o Fields(Tail(line), <<>>)
       ELSE Fields(Tail(line), Append(cur, Head(line)))

\* a type-1 record has 9 fields, a type-2 record 11 (score, path, original
\* path), both with a two-character XY
TrackedRecord(line) ==
  LET f == Fields(line, <<>>)
  IN /\ Len(f) >= 2
     /\ Len(f[2]) = 2
     /\ \/ f[1] = <<"1">> /\ Len(f) = 9
        \/ f[1] = <<"2">> /\ Len(f) = 11

UntrackedRecord(line) ==
  LET f == Fields(line, <<>>) IN Len(f) = 2 /\ f[1] = <<"?">>

WellFormed(line) == TrackedRecord(line) \/ UntrackedRecord(line)

\* the lines of the status output that was parsed
OutputLines == strtok(status_output, <<>>)

\* the status output has been parsed to its end
Parsed == prog = "lg_v2" /\ pc = "g_chdir_back" /\ failure = ""

\* C6 (as claimed): every type-1 or type-2 record with the expected fields is
\* stored with the two characters of XY as its codes and the last
\* white-space-delimited field of the line as its path
C6_PathIsLastField ==
  Parsed =>
    \A n \in 1..Len(OutputLines) :
      LET f == Fields(OutputLines[n], <<>>)
      IN TrackedRecord(OutputLines[n]) =>
           \E k \in 1..Len(ctx.statuses) :
             ctx.statuses[k] = GitStatus(f[Len(f)], f[2][1], f[2][2])

\* the path a well-formed record is about: field 9 of a type-1 record, the
\* post-rename path (field 10) of a type-2 record, field 2 of an untracked one
RecordPath(line) ==
  LET f == Fields(line, <<>>)
  IN IF f[1] = <<"?">> THEN f[2] ELSE IF f[1] = <<"1">> THEN f[9] ELSE f[10]

\* the display status a well-formed record determines by itself
RecordDisplay(line) ==
  LET f == Fields(line, <<>>)
  IN IF f[1] = <<"?">> THEN "?"
     ELSE Display(GitStatus(RecordPath(line), f[2][1], f[2][2]))

\* C7 (as claimed): for every well-formed record of the output whose path is
\* relativePrefix + name, the lookup of name returns the display status that
\* record determines
C7_ParseThenLookup ==
  \A i \in LookedUp :
    \A n \in 1..Len(OutputLines) :
      WellFormed(OutputLines[n]) /\ RecordPath(OutputLines[n]) = Key(files[i].name)
        => files[i].git_status = RecordDisplay(OutputLines[n])

\* the stored entries are those the lines that satisfy Keep produce by
\* themselves, in order
EntriesAreThoseOf(Keep(_)) ==
  ctx.statuses = ParseLines(git_context_create, SelectSeq(OutputLines, Keep)).statuses

\* C8 (as claimed): every malformed line (truncated, wrong field count,
\* unknown record type) produces no entry and the well-formed lines produce
\* the entries they produce without it
C8_MalformedSkipped == Parsed => EntriesAreThoseOf(WellFormed)

\* a line the parser has to skip: an unknown record type, a '?' with no path,
\* or a type-1/2 line (record type alone in field 1, XY of at most two
\* characters) with fewer than nine fields
MustSkip(line) ==
  LET f == Fields(line, <<>>)
  IN \/ line[1] \notin {"1", "2", "?"}
     \/ f = << <<"?">> >>
     \/ /\ line[1] \in {"1", "2"}
        /\ Len(f[1]) = 1
        /\ Len(f) < 9
        /\ (Len(f) >= 2 => Len(f[2]) <= 2)

Kept(line) == ~MustSkip(line)

\* C8 (the part that holds): a line of unknown record type or with too few
\* fields produces no entry and does not stop the parse: the stored entries
\* are exactly those the other lines produce without it
C8_ShortOrUnknownSkipped == Parsed => EntriesAreThoseOf(Kept)

\* C8 witness: a skipped line came before a line that produced an entry
C8_Witness ==
  /\ Parsed
  /\ Len(ctx.statuses) > 0
  /\ \E m, n \in 1..Len(OutputLines) :
       m < n /\ MustSkip(OutputLines[m]) /\ WellFormed(OutputLines[n])

\* exec_git_command has just returned
Returned == pc \in {"g_root_ret", "g_status_ret"}

\* C9: exec_git_command returns 0 exactly when the child ended by exiting
\* with code 0; a failed exec, a non-zero exit, a killing signal, a failed
\* pipe or fork all give -1
C9_SuccessIffExitZero ==
  Returned =>
    /\ xret \in {0, -1}
    /\ (xret = 0 <=> child.st = "exited" /\ child.code = 0)

\* C9 witness: the child was killed by a signal and the call returned -1
C9_Witness == Returned /\ child.st = "signaled" /\ xret = -1

\* get_git_status has returned to main
InMain == prog = "lg_v2" /\ pc \in {"m_opendir", "m_readdir", "done"}

\* C10 (as claimed): whenever the status feature failed there is no context
\* and every entry is clean
C10_NoContextOnFailure ==
  InMain /\ failure # "" =>
    /\ git_ctx = "NULL"
    /\ \A i \in 1..Len(files) : files[i].git_status = SP

\* C10 (amended): when the root query or a directory could not be resolved
\* there is no context; when the status query failed there is a context with
\* no entries; either way every entry is clean, and main returns non-zero
\* only for an opendir failure, before any entry is listed
C10_Degrades ==
  InMain /\ failure # "" =>
    /\ (failure \in {"getcwd", "chdir", "root", "cwd"} => git_ctx = "NULL")
    /\ (failure = "status" => git_ctx = "ctx" /\ ctx.statuses = <<>>)
    /\ \A i \in 1..Len(files) : files[i].git_status = SP
    /\ (pc = "done" /\ exitCode # 0 => files = <<>>)

\* C10 witness: the status query failed and the listing completed with an
\* entry, clean
C10_Witness ==
  /\ InMain /\ failure = "status"
  /\ pc = "done" /\ exitCode = 0
  /\ Len(files) > 0

\* exec_git_command is past its fork: total_read is live
Reading ==
  /\ prog = "lg_v2"
  /\ child.st # "none"
  /\ pc \in {"x_read", "x_finish", "x_wait", "g_root_ret", "g_status_ret"}

\* what git has printed or has yet to print that the parent did not store
NotStored == pipeBuf \o child.out

\* the strtok tokens still to parse are a tail of the tokens of the bytes
\* stored in front of the terminator
ParsesStoredBytes ==
  /\ Len(status_output) = total_read
  /\ \E k \in 0..Len(OutputLines) :
       toks = SubSeq(OutputLines, k + 1, Len(OutputLines))

\* C11: however much git prints and however the reads split it, at most
\* output_size - 1 bytes are stored, every read() ends inside the buffer and
\* leaves room for the terminator, which is written inside the buffer, and
\* the parser takes its lines from the bytes in front of the terminator
C11_WithinBuffer ==
  /\ Reading =>
       /\ Len(output) = total_read
       /\ total_read <= output_size - 1
       /\ (pc = "x_read" =>
             /\ ReadCount(output_size, total_read) >= 0
             /\ total_read + ReadCount(output_size, total_read) <= output_size - 1)
  /\ prog = "lg_v2" /\ pc \in {"g_parse", "g_chdir_back"} /\ failure = ""
       => ParsesStoredBytes

\* C11 witness: git printed more than the buffer takes, the reads stopped at
\* output_size - 1 bytes and the truncated output was parsed into an entry
C11_Witness ==
  /\ Parsed
  /\ total_read = output_size - 1
  /\ NotStored # <<>>
  /\ Len(ctx.statuses) > 0

\* the status query stopped reading at the ceiling with output left over, of
\* a git that exits 0 when left to write everything and that nothing killed
\* from outside
OverCeiling ==
  /\ prog = "lg_v2" /\ xcall = "status"
  /\ child.st \in {"exited", "signaled"}
  /\ child.plan = 0
  /\ ~(child.st = "signaled" /\ child.code = 9)
  /\ total_read = output_size - 1
  /\ NotStored # <<>>

\* C12 (as claimed): output above the ceiling is truncated and still used:
\* in every interleaving of parent and child the runner returns 0 and the
\* engine parses the truncated bytes
C12_TruncatedStillUsed ==
  /\ pc = "g_status_ret" /\ OverCeiling => xret = 0
  /\ pc = "g_chdir_back" /\ OverCeiling => failure = "" /\ status_output = output

\* the twelve status characters, and characters outside them
StatusAlphabet == {"M", "A", "D", "R", "C", "m", "a", "d", "r", "c", "?", "!"}
OtherChars == {SP, ".", "U", "x"}

\* the colour the running program gives a status character
ColorOf(c) == IF prog = "lg_v2" THEN get_git_color(c) ELSE V1get_git_color(c)

\* the glyph the claim gives a status character
ClaimedGlyph(c) ==
  IF c \in {"M", "A", "D", "R", "C"} THEN <<SP, SOLID>>
  ELSE IF c \in {"m", "a", "d", "r", "c"} THEN <<SP, HOLLOW>>
  ELSE IF c \in {"?", "!"} THEN <<SP, c>>
  ELSE <<SP, SP>>

\* C13 (as claimed): when the listing is printed every status character has
\* its glyph (lg_v2.c), the space and any other character have the empty
\* colour, and the twelve status characters have pairwise distinct colours
C13_PresentationTable ==
  pc = "done" /\ exitCode = 0 =>
    /\ prog = "lg_v2" =>
         \A c \in StatusAlphabet \cup OtherChars : format_git_status(c) = ClaimedGlyph(c)
    /\ \A c \in OtherChars : ColorOf(c) = ""
    /\ \A c \in StatusAlphabet : ColorOf(c) # ""
    /\ \A c, d \in StatusAlphabet : c # d => ColorOf(c) # ColorOf(d)

\* the parent is inside exec_git_command
InRunner == pc \in {"x_pipe", "x_fork", "x_close_w", "x_read", "x_finish", "x_wait"}

\* C14: exec_git_command returns with both pipe ends closed on every path
\* (pipe failure, fork failure, read error, ceiling, end of file, failed
\* child): outside it the process holds no pipe end open, so a call leaves
\* the set of open descriptors as it found it
C14_PipeClosedOnReturn == prog = "lg_v2" /\ ~InRunner => pipefd = {}

\* C14 witness: the call returned after the reads stopped at the ceiling
\* with output left over, both ends closed
C14_Witness ==
  /\ prog = "lg_v2" /\ pc = "g_status_ret"
  /\ total_read = output_size - 1
  /\ NotStored # <<>>
  /\ pipefd = {}

\* C15: once fork succeeded exec_git_command does not return before the
\* child was waited for, and, the child exiting or being terminated on its
\* write to the closed pipe, it does return
C15_WaitsThenReturns ==
  /\ [](prog = "lg_v2" /\ ~InRunner /\ child.st # "none" => child.reaped)
  /\ (pc = "x_close_w" ~> pc = "g_status_ret")

\* C15 witness: the reads stopped at the ceiling, the child was terminated on
\* its write to the closed pipe and was waited for before the return
C15_Witness ==
  /\ pc = "g_status_ret"
  /\ total_read = output_size - 1
  /\ child.st = "signaled" /\ child.code = 13
  /\ child.reaped

\* the field of a well-formed record that the parser takes as its path
StoredPath(line) ==
  LET f == Fields(line, <<>>) IN IF f[1] = <<"?">> THEN f[2] ELSE f[9]

\* line n of the output is a well-formed record whose path no earlier
\* well-formed record of the output has
FirstOfItsPath(n) ==
  /\ WellFormed(OutputLines[n])
  /\ \A m \in 1..(n - 1) :
       WellFormed(OutputLines[m]) => StoredPath(OutputLines[m]) # StoredPath(OutputLines[n])

\* C16 (as claimed): the number of entries is not capped: every well-formed
\* record with a not-yet-seen path has an entry, however many precede it
C16_NoEntryCap ==
  Parsed =>
    \A n \in 1..Len(OutputLines) :
      FirstOfItsPath(n) =>
        \E k \in 1..Len(ctx.statuses) :
          ctx.statuses[k].path = StoredPath(OutputLines[n])

\* C17: get_git_status leaves the working directory of the process as it
\* found it: on every return, also the failing ones that come after
\* chdir(dir_path), the process is back in the directory it started in, so
\* main's opendir(dir_path) resolves against that directory
C17_CwdRestored ==
  InMain =>
    /\ procCwd \in StartDirs
    /\ old_dir # <<>> => procCwd = old_dir

\* C17 witness: the root query failed after the change into a directory
\* other than the starting one, and main runs in the starting directory
C17_Witness ==
  /\ InMain
  /\ failure = "root"
  /\ dir_path # <<".">>
  /\ procCwd = old_dir

\* C18 (as claimed): building the prefix writes nothing outside the block
\* allocated for it, and the offset strlen(git_root) + 1 at which the
\* remainder is taken is not past the end of cwd (its terminator included)
C18_PrefixInBounds ==
  prog = "lg_v2" /\ xcall = "status" =>
    /\ heapOverrun = 0
    /\ Len(cwd) > Len(git_root) => Len(git_root) + 1 <= Len(cwd)

====
